---- MODULE Spec2Model ----
(***************************************************************************)
(* Renode-UI: the command bridge (backend/async_bridge.py), the backend    *)
(* wrapper (backend/renode_wrapper.py) and its log tailer, the main window *)
(* (main_window.py) and its memory watch table (widgets/memory_watch.py).  *)
(*                                                                         *)
(* Execution contexts: "loop" is the caller's asyncio event loop, "worker" *)
(* a thread of the loop's default executor, "tailer" a _tail_log_file      *)
(* thread.                                                                 *)
(***************************************************************************)
EXTENDS Integers, Sequences, FiniteSets, TLC

\* ------------------------------------------------------------------ bounds
\* Bridge operations dispatched in one behaviour.
MaxOps == 2
\* setup_logging calls in one behaviour.
MaxSetups == 2
\* cleanup calls in one behaviour.
MaxCleanups == 2
\* Characters the backend writes to its log files in one behaviour.
MaxWritten == 3
\* Clicks on the Start, Pause and Reset buttons in one behaviour.
MaxClicks == 2
\* Watches added in one behaviour.
MaxAdds == 2

\* --------------------------------------------------------------- constants
NoneRef == 0

ControlKinds == {"start", "pause", "reset"}
\* Script paths handed to load_script.
Paths == {"", "s.resc"}
\* MainWindow.monitor_loop always reads 4 bytes.
Widths == {4}
\* Addresses and widths (in bytes) a caller of read_memory may pass.
Addrs == {0, 1}
ReadWidths == {1, 2, 4}
\* The value read_memory returns, 0xDEADBEEF.  Unsigned integers are written
\* in base 256, most significant digit first and without leading zeros
\* (zero is the empty sequence), so that a value is below 2^(8*w) exactly
\* when it has at most w digits.
DEADBEEF == <<222, 173, 190, 239>>

VARIABLES
    PYRENODE_AVAILABLE, \* module flag: real backend (TRUE) or mock mode
    running,            \* RenodeWrapper.running
    ops,                \* bridge operations, in issuance order
    ready,              \* the loop's FIFO of call_soon_threadsafe handles
    emulation,          \* the backend's emulation: "clear", or "loaded" once
                        \* a script has been included since the last clear
    lastCompleted,      \* kind of the control op whose wrapper call returned
                        \* successfully last ("none" before any)
    setups,             \* setup_logging calls made
    setupPc,            \* position inside RenodeWrapper.setup_logging
    files,              \* temp files by path: [exists, content]
    log_file_path,      \* RenodeWrapper.log_file_path (NoneRef = None)
    log_thread,         \* RenodeWrapper.log_thread (index into tailers)
    stop_logging_event, \* RenodeWrapper.stop_logging_event (index into tailers)
    tailers,            \* _tail_log_file threads with their stop events
    backendLogFile,     \* file the backend's logFile directive points at
    cbCalls,            \* executions of the user's log callback: [msg, ctx]
    cleanups,           \* cleanup calls completed
    cleanupPc,          \* position inside RenodeWrapper.cleanup
    cleanedUp,          \* a cleanup returned and no setup_logging ran since
    raised,             \* exceptions that escaped cleanup
    start_btn,          \* MainWindow.start_btn is enabled
    pause_btn,          \* MainWindow.pause_btn is enabled
    handlers,           \* start/pause/reset_simulation coroutines, by click
    monitor_task,       \* MainWindow.monitor_task (index into tasks)
    tasks,              \* monitor_loop tasks created so far
    table,              \* MemoryWatchWidget.table: its rows, top first
    watches,            \* MemoryWatchWidget.watches (the current list object)
    added               \* watches added so far

bridgeVars == <<running, ops, lastCompleted, emulation>>
logVars == <<setups, setupPc, files, log_file_path, log_thread,
             stop_logging_event, tailers, backendLogFile>>
cleanupVars == <<cleanups, cleanupPc, cleanedUp, raised>>
uiVars == <<start_btn, pause_btn, handlers, tasks, table, watches, added>>
winVars == <<uiVars, monitor_task>>
vars == <<PYRENODE_AVAILABLE, winVars, bridgeVars, ready, logVars, cbCalls,
          cleanupVars>>

\* ---------------------------------------------------------------- helpers
\* The loop thread is inside a synchronous call (setup_logging or cleanup).
LoopFree == setupPc = "idle" /\ cleanupPc = "idle"

\* Wrapper calls that a worker thread is executing.
Executing == {i \in 1..Len(ops) : ops[i].st \in {"call", "call2", "ret", "written"}}
Finished(i) == ops[i].st \in {"done", "resolved"}
Resolved(i) == ops[i].st = "resolved"

\* RenodeWrapper.monitor_command, which RenodeBridge.monitor_command hands to
\* the executor, is not among the sources.  After the specification's
\* executeCommand: it runs the text on the backend console, which may fail
\* with the real backend; the substitute always succeeds.
wrapper_monitor_command ==
    [backend |-> PYRENODE_AVAILABLE,
     raises |-> IF PYRENODE_AVAILABLE THEN BOOLEAN ELSE {FALSE},
     \* the captured pair: what the console printed, and the error text of
     \* a command that fails (BackendFailure carries it)
     output |-> "out",
     error |-> "error",
     \* a log callback is registered: setup_logging was called with the
     \* real backend (mock mode returns before looking at the callback)
     callback |-> PYRENODE_AVAILABLE /\ setups > 0]

\* Does the wrapper method call into the backend handle (emulation/monitor)?
\* Only with the real backend; read_memory returns a constant without it.
UsesBackend(kind) ==
    \/ PYRENODE_AVAILABLE /\ kind \in ControlKinds \cup {"load_script"}
    \/ kind = "monitor_command" /\ wrapper_monitor_command.backend

\* Callers currently inside a method of the backend handle (emulation/monitor).
InBackend ==
    {[ctx |-> "worker", who |-> ops[i].kind] :
        i \in {j \in 1..Len(ops) : ops[j].st \in {"call", "call2"} /\ UsesBackend(ops[j].kind)}}
    \cup (IF setupPc \in {"logFile", "logLevel"}
          THEN {[ctx |-> "loop", who |-> "setup_logging"]} ELSE {})

\* ----------------------------------------------------------------- Init
Init ==
    /\ PYRENODE_AVAILABLE \in BOOLEAN
    /\ running = FALSE
    /\ ops = <<>>
    /\ ready = <<>>
    /\ lastCompleted = "none"
    /\ emulation = "clear"
    /\ setups = 0
    /\ setupPc = "idle"
    /\ files = <<>>
    /\ log_file_path = NoneRef
    /\ log_thread = NoneRef
    /\ stop_logging_event = NoneRef
    /\ tailers = <<>>
    /\ backendLogFile = NoneRef
    /\ cbCalls = <<>>
    /\ cleanups = 0
    /\ cleanupPc = "idle"
    /\ cleanedUp = FALSE
    /\ raised = {}
    /\ start_btn = TRUE
    /\ pause_btn = FALSE
    /\ handlers = <<>>
    /\ monitor_task = NoneRef
    /\ tasks = <<>>
    /\ table = <<>>
    /\ watches = <<>>
    /\ added = 0

\* ------------------------------------------------------- RenodeBridge
\* No exception.
NoExc == [type |-> "none", msg |-> "", call |-> 0]

\* loop.run_in_executor(None, fn, *args): the call is queued on the default
\* executor and the coroutine awaits its future.
run_in_executor(kind, path, addr, width) ==
    /\ LoopFree
    /\ Len(ops) < MaxOps
    /\ ops' = Append(ops, [kind |-> kind, path |-> path, addr |-> addr,
                           width |-> width, val |-> <<>>,
                           st |-> "queued", fail |-> FALSE, res |-> "none",
                           exc |-> NoExc, seen |-> NoExc,
                           cancelled |-> FALSE])
    /\ UNCHANGED <<PYRENODE_AVAILABLE, winVars, running, lastCompleted, emulation,
                   ready, logVars,
                   cbCalls, cleanupVars>>

load_script == \E path \in Paths : run_in_executor("load_script", path, 0, 0)
start == run_in_executor("start", "", 0, 0)
pause == run_in_executor("pause", "", 0, 0)
reset == run_in_executor("reset", "", 0, 0)
\* read_memory as MainWindow.monitor_loop calls it.
read_memory == \E width \in Widths : run_in_executor("read_memory", "", 0, width)
\* read_memory as any caller of the bridge may call it.
bridge_read_memory ==
    \E addr \in Addrs, width \in ReadWidths :
        run_in_executor("read_memory", "", addr, width)
monitor_command == run_in_executor("monitor_command", "", 0, 0)

\* A thread of the default executor enters the wrapper method of a queued
\* call.  The pool holds more threads than MaxOps, so an idle one is always
\* at hand and every queued call has its own thread.
WorkerPick ==
    /\ \E i \in 1..Len(ops) :
        /\ ops[i].st = "queued"
        /\ ops' = [ops EXCEPT ![i].st = "call"]
    /\ UNCHANGED <<PYRENODE_AVAILABLE, winVars, running, lastCompleted, emulation,
                   ready, logVars,
                   cbCalls, cleanupVars>>

\* A cancellation that also stops a call a worker thread is executing.
cancel_future_aborting(st) == "aborted"
\* Cancelling the future run_in_executor returned: the cancellation is
\* passed on to the executor's future, which withdraws a call no thread has
\* begun and has no hold on one that is executing or has finished.
cancel_future(st) == IF st = "queued" THEN "aborted" ELSE st

\* The task awaiting a bridge operation is cancelled, as MainWindow cancels
\* monitor_task, which may be inside `await bridge.read_memory(...)`.
cancel ==
    /\ LoopFree
    /\ \E i \in 1..Len(ops) :
        /\ ~ops[i].cancelled
        /\ ops[i].st \notin {"resolved", "discarded", "aborted"}
        /\ ops' = [ops EXCEPT ![i].cancelled = TRUE,
                              ![i].st = cancel_future(ops[i].st)]
    /\ UNCHANGED <<PYRENODE_AVAILABLE, winVars, running, lastCompleted, emulation,
                   ready, logVars,
                   cbCalls, cleanupVars>>

\* ------------------------------------------------------- RenodeWrapper
\* Can the blocking call of the wrapper method raise?  With the real backend
\* any call into emulation/monitor may; in mock mode only load_script with an
\* empty path does (ValueError).
\* Mock mode raising for every load_script, whatever the path.
MayRaise_any_path(kind, path) ==
    IF kind = "monitor_command" THEN wrapper_monitor_command.raises
    ELSE IF PYRENODE_AVAILABLE
    THEN IF kind = "read_memory" THEN {FALSE} ELSE BOOLEAN
    ELSE {kind = "load_script"}
MayRaise(kind, path) ==
    IF kind = "monitor_command" THEN wrapper_monitor_command.raises
    ELSE IF PYRENODE_AVAILABLE
    THEN IF kind = "read_memory" THEN {FALSE} ELSE BOOLEAN
    ELSE {kind = "load_script" /\ path = ""}

\* What the wrapper call hands to the executor's future: an exception raised
\* in the method is re-raised (`raise e`), anything else is a normal return.
wrapper_result(failed) == IF failed THEN "exc" ELSE "ok"

\* The exception object a failing wrapper call i lets out.  Mock mode:
\* ValueError("Invalid path") of load_script.  Real backend: whatever the
\* backend call raised, re-raised unchanged by `raise e`; its message is
\* represented by the name of the call that failed.
wrapper_raise(i, kind) ==
    IF kind = "monitor_command"
    THEN [type |-> "BackendFailure", msg |-> wrapper_monitor_command.error,
          call |-> i]
    ELSE IF PYRENODE_AVAILABLE
    THEN [type |-> "Exception", msg |-> kind, call |-> i]
    ELSE [type |-> "ValueError", msg |-> "Invalid path", call |-> i]

\* What the wrapper method of call i has handed to the registered log
\* callback by the time it returns or raises.  load_script, start, pause,
\* reset and read_memory write to the module's `logger` only and never
\* touch the callback; monitor_command (after the specification) passes
\* it the output and the error it captured.
wrapper_log(i, kind, failed) ==
    IF kind = "monitor_command" /\ wrapper_monitor_command.callback
    THEN <<[type |-> "log", op |-> i, msg |-> <<wrapper_monitor_command.output>>],
           [type |-> "log", op |-> i,
            msg |-> <<IF failed THEN wrapper_monitor_command.error ELSE "">>]>>
    ELSE <<>>

\* The effect of a wrapper method on `running` once its blocking call has
\* returned (failed = FALSE) or raised: start/pause/reset assign it after
\* the call inside the try block, so an exception skips the assignment.
\* start returning without the assignment.
wrapper_start_unassigned(cur, failed) == cur
wrapper_start(cur, failed) == IF failed THEN cur ELSE TRUE
\* pause with the flag cleared before the call is known to have succeeded.
wrapper_pause_optimistic(cur, failed) == FALSE
wrapper_pause(cur, failed) == IF failed THEN cur ELSE FALSE
wrapper_reset(cur, failed) == IF failed THEN cur ELSE FALSE

\* RenodeWrapper.read_memory: a fixed value in both modes, whatever the
\* address and the width.
wrapper_read_memory(addr, width) == DEADBEEF

\* read_memory taken to stop the simulation.
RunningAfter_read_clears(kind, cur, failed) ==
    CASE kind = "start" -> wrapper_start(cur, failed)
      [] kind = "pause" -> wrapper_pause(cur, failed)
      [] kind = "reset" -> wrapper_reset(cur, failed)
      [] kind = "read_memory" -> FALSE
      [] OTHER -> cur
RunningAfter(kind, cur, failed) ==
    CASE kind = "start" -> wrapper_start(cur, failed)
      [] kind = "pause" -> wrapper_pause(cur, failed)
      [] kind = "reset" -> wrapper_reset(cur, failed)
      [] OTHER -> cur

\* The wrapper method returns (or raises) on the worker thread; the executor
\* completes the future and wakes the loop with call_soon_threadsafe.
Return(i, failed) ==
    /\ ops' = [ops EXCEPT ![i].st = "done", ![i].fail = failed,
                          ![i].res = wrapper_result(failed),
                          ![i].val = IF ops[i].kind = "read_memory" /\ ~failed
                                     THEN wrapper_read_memory(ops[i].addr,
                                                              ops[i].width)
                                     ELSE <<>>,
                          ![i].exc = IF failed
                                     THEN wrapper_raise(i, ops[i].kind)
                                     ELSE NoExc]
    /\ lastCompleted' = IF ops[i].kind \in ControlKinds /\ ~failed
                        THEN ops[i].kind ELSE lastCompleted
    /\ ready' = Append(ready \o wrapper_log(i, ops[i].kind, failed),
                       [type |-> "future", op |-> i, msg |-> <<>>])

\* The emulation once a backend call has returned (failed = FALSE) or
\* raised.  With the real backend emulation.clear() (the first call of
\* load_script, the call of reset) empties it and monitor.execute("i @path")
\* (the second call of load_script) loads the script into what is there; a
\* call that raises leaves it as it was.  Mock mode has no emulation.
EmulationAfter(kind, st, cur, failed) ==
    IF ~PYRENODE_AVAILABLE \/ failed THEN cur
    ELSE IF kind = "reset" THEN "clear"
    ELSE IF kind = "load_script"
    THEN IF st = "call" THEN "clear" ELSE "loaded"
    ELSE cur

\* The blocking call of the wrapper method returns or raises.  load_script
\* with the real backend makes two calls: emulation.clear(), then
\* monitor.execute("i @path") if the clear did not raise.  After a successful
\* start/pause/reset call the write of `running` is still to come; in every
\* other case nothing but logging separates the call from the method's end.
BackendReturn ==
    /\ \E i \in 1..Len(ops) :
        /\ ops[i].st \in {"call", "call2"}
        /\ \E failed \in MayRaise(ops[i].kind, ops[i].path) :
            /\ IF /\ ops[i].st = "call"
                  /\ ops[i].kind = "load_script"
                  /\ PYRENODE_AVAILABLE
                  /\ ~failed
               THEN /\ ops' = [ops EXCEPT ![i].st = "call2"]
                    /\ UNCHANGED <<running, lastCompleted, ready>>
               ELSE IF ops[i].kind \in ControlKinds /\ ~failed
               THEN /\ ops' = [ops EXCEPT ![i].st = "ret"]
                    /\ UNCHANGED <<running, lastCompleted, ready>>
               ELSE /\ running' = RunningAfter(ops[i].kind, running, failed)
                    /\ Return(i, failed)
            /\ emulation' =
                   EmulationAfter(ops[i].kind, ops[i].st, emulation, failed)
    /\ UNCHANGED <<PYRENODE_AVAILABLE, winVars, logVars, cbCalls, cleanupVars>>

\* `self.running = ...` after the successful call of start/pause/reset.
AfterCall ==
    /\ \E i \in 1..Len(ops) :
        /\ ops[i].st = "ret"
        /\ running' = RunningAfter(ops[i].kind, running, FALSE)
        /\ ops' = [ops EXCEPT ![i].st = "written"]
    /\ UNCHANGED <<PYRENODE_AVAILABLE, winVars, lastCompleted, emulation, ready,
                   logVars, cbCalls,
                   cleanupVars>>

\* start/pause/reset log "Simulation ..." and return.
WrapperReturn ==
    /\ \E i \in 1..Len(ops) :
        /\ ops[i].st = "written"
        /\ Return(i, FALSE)
    /\ UNCHANGED <<PYRENODE_AVAILABLE, winVars, running, emulation, logVars, cbCalls,
                   cleanupVars>>

\* An await that resumes normally whatever the future holds.
await_future_swallowed(op) == NoExc
\* `await self.loop.run_in_executor(...)`: what is raised in the awaiting
\* coroutine when it resumes, the future's exception if it holds one.
await_future(op) == IF op.res = "exc" THEN op.exc ELSE NoExc

\* The loop runs the oldest ready handle: here the wake-up of an awaiting
\* coroutine, which resumes with the result or the exception.  The handle
\* of a cancelled await finds nobody waiting and the result is discarded.
loop_resolve_future ==
    /\ LoopFree
    /\ ready # <<>>
    /\ Head(ready).type = "future"
    /\ LET i == Head(ready).op
       IN ops' = IF ops[i].cancelled
                 THEN [ops EXCEPT ![i].st = "discarded"]
                 ELSE [ops EXCEPT ![i].st = "resolved",
                                  ![i].seen = await_future(ops[i])]
    /\ ready' = Tail(ready)
    /\ UNCHANGED <<PYRENODE_AVAILABLE, winVars, running, lastCompleted, emulation,
                   logVars, cbCalls,
                   cleanupVars>>

\* ------------------------------------------------------- setup_logging
\* setup_logging without the mock-mode return: the file is made in any mode.
setup_logging_unguarded ==
    /\ LoopFree
    /\ setups < MaxSetups
    /\ setups' = setups + 1
    /\ cleanedUp' = FALSE
    /\ files' = Append(files, [exists |-> TRUE, content |-> <<>>])
    /\ log_file_path' = Len(files) + 1
    /\ setupPc' = "logFile"
    /\ UNCHANGED <<PYRENODE_AVAILABLE, winVars, bridgeVars, ready, log_thread,
                   stop_logging_event, tailers, backendLogFile, cbCalls,
                   cleanups, cleanupPc, raised>>
\* RenodeBridge.setup_logging calls RenodeWrapper.setup_logging directly, on
\* the caller's thread.  Mock mode: warn and return.  Real backend: mkstemp,
\* truncate, then monitor.execute("logFile @path").
setup_logging ==
    /\ LoopFree
    /\ setups < MaxSetups
    /\ setups' = setups + 1
    /\ cleanedUp' = FALSE
    /\ IF PYRENODE_AVAILABLE
       THEN /\ files' = Append(files, [exists |-> TRUE, content |-> <<>>])
            /\ log_file_path' = Len(files) + 1
            /\ setupPc' = "logFile"
       ELSE UNCHANGED <<files, log_file_path, setupPc>>
    /\ UNCHANGED <<PYRENODE_AVAILABLE, winVars, bridgeVars, ready, log_thread,
                   stop_logging_event, tailers, backendLogFile, cbCalls,
                   cleanups, cleanupPc, raised>>

\* MainWindow.__init__ registers its log callback through
\* RenodeBridge.setup_logging, once, when the window is built.
bridge_setup_logging == setups = 0 /\ setup_logging

\* A setup_logging that goes on after a failed logFile directive.
setup_logFile_return_lenient ==
    /\ setupPc = "logFile"
    /\ \E failed \in BOOLEAN :
        IF failed
        THEN setupPc' = "logLevel" /\ UNCHANGED backendLogFile
        ELSE setupPc' = "logLevel" /\ backendLogFile' = log_file_path
    /\ UNCHANGED <<PYRENODE_AVAILABLE, winVars, bridgeVars, ready, setups, files,
                   log_file_path, log_thread, stop_logging_event, tailers,
                   cbCalls, cleanupVars>>
\* monitor.execute("logFile @path") returns, or raises and setup_logging
\* logs the error and returns.
setup_logFile_return ==
    /\ setupPc = "logFile"
    /\ \E failed \in BOOLEAN :
        IF failed
        THEN setupPc' = "idle" /\ UNCHANGED backendLogFile
        ELSE setupPc' = "logLevel" /\ backendLogFile' = log_file_path
    /\ UNCHANGED <<PYRENODE_AVAILABLE, winVars, bridgeVars, ready, setups, files,
                   log_file_path, log_thread, stop_logging_event, tailers,
                   cbCalls, cleanupVars>>

\* A tailer that starts at the end of the file, as `tail -f` does.
start_tailer_at_end(path) ==
    /\ tailers' = Append(tailers, [path |-> path, pc |-> "start",
                                   pos |-> Len(files[path].content),
                                   stop |-> FALSE, delivered |-> <<>>,
                                   emptyAtStart |-> files[path].content = <<>>])
    /\ stop_logging_event' = Len(tailers) + 1
    /\ log_thread' = Len(tailers) + 1
\* A new threading.Event and a new daemon Thread on _tail_log_file, started.
start_tailer(path) ==
    /\ tailers' = Append(tailers, [path |-> path, pc |-> "start", pos |-> 0,
                                   stop |-> FALSE, delivered |-> <<>>,
                                   emptyAtStart |-> files[path].content = <<>>])
    /\ stop_logging_event' = Len(tailers) + 1
    /\ log_thread' = Len(tailers) + 1

\* monitor.execute("logLevel 0") returns and the tailer thread is started, or
\* it raises and setup_logging returns without a tailer.
setup_logLevel_return ==
    /\ setupPc = "logLevel"
    /\ setupPc' = "idle"
    /\ \E failed \in BOOLEAN :
        IF failed
        THEN UNCHANGED <<tailers, stop_logging_event, log_thread>>
        ELSE start_tailer(log_file_path)
    /\ UNCHANGED <<PYRENODE_AVAILABLE, winVars, bridgeVars, ready, setups, files,
                   log_file_path, backendLogFile, cbCalls, cleanupVars>>

\* MainWindow.append_renode_log(msg): appends msg to the Renode monitor
\* view (the message is kept in cbCalls), scrolls to the end, and assigns
\* self.monitor_task = None.  The value is the new monitor_task.
append_renode_log(msg) == NoneRef

\* ------------------------------------------------------- _tail_log_file
Whitespace == {" ", "\n"}
\* What the backend appends in one write: a whole line, a whole line that
\* begins with a blank, or the beginning of a line whose end comes later.
Chunks == {<<"a", "\n">>, <<" ", "a", "\n">>, <<"b">>}

RECURSIVE lstrip(_)
lstrip(s) == IF s # <<>> /\ Head(s) \in Whitespace THEN lstrip(Tail(s)) ELSE s

RECURSIVE rstrip(_)
rstrip(s) ==
    IF s # <<>> /\ s[Len(s)] \in Whitespace
    THEN rstrip(SubSeq(s, 1, Len(s) - 1)) ELSE s

\* str.strip(): leading and trailing whitespace removed.
strip(s) == lstrip(rstrip(s))

\* f.readline() at offset pos: up to and including the next "\n", or what is
\* there up to the end of the file (the empty string at the end of the file).
readline(content, pos) ==
    LET rest == SubSeq(content, pos + 1, Len(content))
        nl == {k \in 1..Len(rest) : rest[k] = "\n"}
    IN IF nl = {} THEN rest
       ELSE SubSeq(rest, 1, CHOOSE k \in nl : \A m \in nl : k <= m)

\* The user's callback called on the calling thread, without the hand-off.
direct_callback(msg, ctx) ==
    [ready |-> ready,
     cbCalls |-> Append(cbCalls, [msg |-> msg, ctx |-> ctx, op |-> 0])]
\* safe_callback of RenodeBridge.setup_logging, the callback the tailer is
\* given: it hands the user's callback and msg to the loop.  The result is
\* the loop's queue and the record of callback executions.
safe_callback(msg, ctx) ==
    [ready |-> Append(ready, [type |-> "log", op |-> 0, msg |-> msg]),
     cbCalls |-> cbCalls]

\* The thread begins: open(path, "r").  A missing file raises, the error is
\* logged and the thread ends.
tailer_open ==
    /\ \E t \in 1..Len(tailers) :
        /\ tailers[t].pc = "start"
        /\ tailers' = [tailers EXCEPT ![t].pc =
                IF files[tailers[t].path].exists THEN "check" ELSE "exited"]
    /\ UNCHANGED <<PYRENODE_AVAILABLE, winVars, bridgeVars, ready, setups, setupPc, files,
                   log_file_path, log_thread, stop_logging_event,
                   backendLogFile, cbCalls, cleanupVars>>

\* A loop that goes on reading whatever the event says.
tailer_check_ignoring ==
    /\ \E t \in 1..Len(tailers) :
        /\ tailers[t].pc = "check"
        /\ tailers' = [tailers EXCEPT ![t].pc = "read"]
    /\ UNCHANGED <<PYRENODE_AVAILABLE, winVars, bridgeVars, ready, setups, setupPc, files,
                   log_file_path, log_thread, stop_logging_event,
                   backendLogFile, cbCalls, cleanupVars>>
\* `while not stop_event.is_set()`.
tailer_check ==
    /\ \E t \in 1..Len(tailers) :
        /\ tailers[t].pc = "check"
        /\ tailers' = [tailers EXCEPT ![t].pc =
                IF tailers[t].stop THEN "exited" ELSE "read"]
    /\ UNCHANGED <<PYRENODE_AVAILABLE, winVars, bridgeVars, ready, setups, setupPc, files,
                   log_file_path, log_thread, stop_logging_event,
                   backendLogFile, cbCalls, cleanupVars>>

\* line = f.readline(); callback(line.strip()) if line else time.sleep(0.1).
\* The open file stays readable after it has been unlinked.
tailer_read ==
    /\ \E t \in 1..Len(tailers) :
        /\ tailers[t].pc = "read"
        /\ LET line == readline(files[tailers[t].path].content, tailers[t].pos)
               out == safe_callback(strip(line), "tailer")
           IN IF line # <<>>
              THEN /\ tailers' = [tailers EXCEPT
                          ![t].pc = "check",
                          ![t].pos = @ + Len(line),
                          ![t].delivered = Append(@, strip(line))]
                   /\ ready' = out.ready
                   /\ cbCalls' = out.cbCalls
              ELSE /\ tailers' = [tailers EXCEPT ![t].pc = "check"]
                   /\ UNCHANGED <<ready, cbCalls>>
    /\ UNCHANGED <<PYRENODE_AVAILABLE, winVars, bridgeVars, setups, setupPc, files,
                   log_file_path, log_thread, stop_logging_event,
                   backendLogFile, cleanupVars>>

\* A loop that discards the handle without running the callback.
loop_run_callback_dropped ==
    /\ LoopFree
    /\ ready # <<>>
    /\ Head(ready).type = "log"
    /\ ready' = Tail(ready)
    /\ UNCHANGED <<PYRENODE_AVAILABLE, winVars, bridgeVars, logVars, cbCalls,
                   cleanupVars>>
\* The loop runs the oldest ready handle: here the log callback, which is
\* MainWindow.append_renode_log (the only callback the program registers).
loop_run_callback ==
    /\ LoopFree
    /\ ready # <<>>
    /\ Head(ready).type = "log"
    /\ cbCalls' = Append(cbCalls, [msg |-> Head(ready).msg, ctx |-> "loop",
                                   op |-> Head(ready).op])
    /\ monitor_task' = append_renode_log(Head(ready).msg)
    /\ ready' = Tail(ready)
    /\ UNCHANGED <<PYRENODE_AVAILABLE, uiVars, bridgeVars, logVars,
                   cleanupVars>>

RECURSIVE SumLen(_)
SumLen(fs) == IF fs = <<>> THEN 0 ELSE Len(Head(fs).content) + SumLen(Tail(fs))
\* Characters written to the log files so far.
Written == SumLen(files)

\* The backend appends to the file its logFile directive named; it keeps the
\* file open, so it goes on writing after the file has been unlinked.
backend_write ==
    /\ backendLogFile # NoneRef
    /\ \E chunk \in Chunks :
        /\ Written + Len(chunk) <= MaxWritten
        /\ files' = [files EXCEPT ![backendLogFile].content = @ \o chunk]
    /\ UNCHANGED <<PYRENODE_AVAILABLE, winVars, bridgeVars, ready, setups, setupPc,
                   log_file_path, log_thread, stop_logging_event, tailers,
                   backendLogFile, cbCalls, cleanupVars>>

\* Something outside the program removes a temporary file.
external_remove ==
    /\ \E f \in 1..Len(files) :
        /\ files[f].exists
        /\ files' = [files EXCEPT ![f].exists = FALSE]
    /\ UNCHANGED <<PYRENODE_AVAILABLE, winVars, bridgeVars, ready, setups, setupPc,
                   log_file_path, log_thread, stop_logging_event, tailers,
                   backendLogFile, cbCalls, cleanupVars>>

\* ------------------------------------------------------------- cleanup
\* A cleanup that leaves the event as it is.
set_stop_event_skipped(ts, ev) == ts
\* threading.Event.set() on the event the wrapper holds, if any.
set_stop_event(ts, ev) ==
    IF ev # NoneRef THEN [ts EXCEPT ![ev].stop = TRUE] ELSE ts

\* `if self.stop_logging_event: self.stop_logging_event.set()`.
cleanup ==
    /\ LoopFree
    /\ cleanups < MaxCleanups
    /\ tailers' = set_stop_event(tailers, stop_logging_event)
    /\ cleanupPc' = "join"
    /\ UNCHANGED <<PYRENODE_AVAILABLE, winVars, bridgeVars, ready, setups, setupPc, files,
                   log_file_path, log_thread, stop_logging_event,
                   backendLogFile, cbCalls, cleanups, cleanedUp, raised>>

\* `self.log_thread.join(timeout=1.0)`: returns when the thread has ended or
\* the second has passed, whichever comes first.
cleanup_join ==
    /\ cleanupPc = "join"
    /\ cleanupPc' = "exists"
    /\ UNCHANGED <<PYRENODE_AVAILABLE, winVars, bridgeVars, ready, logVars, cbCalls,
                   cleanups, cleanedUp, raised>>

\* `if self.log_file_path and os.path.exists(self.log_file_path)`.
cleanup_exists ==
    /\ cleanupPc = "exists"
    /\ IF log_file_path # NoneRef /\ files[log_file_path].exists
       THEN /\ cleanupPc' = "remove"
            /\ UNCHANGED <<cleanups, cleanedUp>>
       ELSE /\ cleanupPc' = "idle"
            /\ cleanups' = cleanups + 1
            /\ cleanedUp' = TRUE
    /\ UNCHANGED <<PYRENODE_AVAILABLE, winVars, bridgeVars, ready, logVars, cbCalls, raised>>

\* A removal that leaves the file in place.
os_remove_kept(fs, path) == [files |-> fs, exc |-> "none"]
\* os.remove(path): the file is unlinked, or OSError if it is not there.
os_remove(fs, path) ==
    IF fs[path].exists
    THEN [files |-> [fs EXCEPT ![path].exists = FALSE], exc |-> "none"]
    ELSE [files |-> fs, exc |-> "OSError"]

\* The exceptions `except OSError: pass` lets through.
cleanup_except(exc) == IF exc = "OSError" THEN {} ELSE {exc} \ {"none"}

\* try: os.remove(self.log_file_path) / except OSError: pass.
cleanup_remove ==
    /\ cleanupPc = "remove"
    /\ LET r == os_remove(files, log_file_path)
       IN /\ files' = r.files
          /\ raised' = raised \cup cleanup_except(r.exc)
    /\ cleanupPc' = "idle"
    /\ cleanups' = cleanups + 1
    /\ cleanedUp' = TRUE
    /\ UNCHANGED <<PYRENODE_AVAILABLE, winVars, bridgeVars, ready, setups, setupPc,
                   log_file_path, log_thread, stop_logging_event, tailers,
                   backendLogFile, cbCalls>>

\* --------------------------------------------------------- MainWindow
\* MainWindow.__init__ has returned (its last call into the bridge is
\* setup_logging) and the loop thread is not inside a synchronous call.
WindowShown == setups > 0 /\ LoopFree

\* A coroutine of MainWindow made by a button click.
Handler(kind) == [kind |-> kind, pc |-> "scheduled", ok |-> FALSE]

\* clicked.connect(lambda: asyncio.ensure_future(self.<kind>_simulation())):
\* the coroutine is scheduled, it has not run yet.  A disabled button does
\* not emit clicked.
ensure_future(kind) ==
    /\ WindowShown
    /\ Len(handlers) < MaxClicks
    /\ handlers' = Append(handlers, Handler(kind))
    /\ UNCHANGED <<PYRENODE_AVAILABLE, start_btn, pause_btn, tasks, table,
                   watches, added, monitor_task, bridgeVars, ready, logVars,
                   cbCalls, cleanupVars>>

start_btn_clicked == start_btn /\ ensure_future("start")
pause_btn_clicked == pause_btn /\ ensure_future("pause")
reset_btn_clicked == ensure_future("reset")

\* The coroutine's first step, up to `await self.bridge.<kind>()`:
\* start_simulation disables Start and enables Pause, pause_simulation and
\* reset_simulation do the opposite.
simulation_begin(kind) ==
    /\ WindowShown
    /\ \E h \in 1..Len(handlers) :
        /\ handlers[h].kind = kind
        /\ handlers[h].pc = "scheduled"
        /\ handlers' = [handlers EXCEPT ![h].pc = "await"]
    /\ start_btn' = (kind # "start")
    /\ pause_btn' = (kind = "start")
    /\ UNCHANGED <<PYRENODE_AVAILABLE, tasks, table, watches, added,
                   monitor_task, bridgeVars, ready, logVars, cbCalls,
                   cleanupVars>>

start_simulation == simulation_begin("start")
pause_simulation == simulation_begin("pause")
reset_simulation == simulation_begin("reset")

\* A monitor_loop task as asyncio.create_task leaves it.  `live` says that
\* the list its for loop iterates is still self.memory_watch.watches, `snap`
\* is that list once the widget has replaced it, `idx` counts the items the
\* loop has taken, `watch` is the dict it holds across the await.
NoWatch == [address |-> 0, row |-> 0 - 1, id |-> 0]
NewTask == [pc |-> "created", must_cancel |-> FALSE, live |-> TRUE,
            snap |-> <<>>, idx |-> 0, watch |-> NoWatch]

\* Task.done().
done(t) == tasks[t].pc = "done"

\* Task.cancel(): a request the task meets the next time it is resumed;
\* nothing for a task that is done.
task_cancel(ts, t) == [ts EXCEPT ![t].must_cancel = (ts[t].pc # "done")]

\* `await self.bridge.start()` returns or raises in start_simulation.
\* Returned: a new monitor_loop task unless monitor_task holds one that is
\* not done.  Raised: the buttons are put back.
start_simulation_resumed ==
    /\ WindowShown
    /\ \E h \in 1..Len(handlers) :
        /\ handlers[h].kind = "start"
        /\ handlers[h].pc = "await"
        /\ \E failed \in MayRaise("start", "") :
            /\ handlers' = [handlers EXCEPT ![h].pc = "done",
                                            ![h].ok = ~failed]
            /\ IF failed
               THEN /\ start_btn' = TRUE
                    /\ pause_btn' = FALSE
                    /\ UNCHANGED <<tasks, monitor_task>>
               ELSE /\ UNCHANGED <<start_btn, pause_btn>>
                    /\ IF monitor_task = NoneRef \/ done(monitor_task)
                       THEN /\ tasks' = Append(tasks, NewTask)
                            /\ monitor_task' = Len(tasks) + 1
                       ELSE UNCHANGED <<tasks, monitor_task>>
    /\ UNCHANGED <<PYRENODE_AVAILABLE, table, watches, added, bridgeVars,
                   ready, logVars, cbCalls, cleanupVars>>

\* `await self.bridge.pause()` / `await self.bridge.reset()` returns or
\* raises.  Returned: `if self.monitor_task: self.monitor_task.cancel()`.
simulation_stop_resumed(kind) ==
    /\ WindowShown
    /\ \E h \in 1..Len(handlers) :
        /\ handlers[h].kind = kind
        /\ handlers[h].pc = "await"
        /\ \E failed \in MayRaise(kind, "") :
            /\ handlers' = [handlers EXCEPT ![h].pc = "done",
                                            ![h].ok = ~failed]
            /\ tasks' = IF ~failed /\ monitor_task # NoneRef
                        THEN task_cancel(tasks, monitor_task)
                        ELSE tasks
    /\ UNCHANGED <<PYRENODE_AVAILABLE, start_btn, pause_btn, table, watches,
                   added, monitor_task, bridgeVars, ready, logVars, cbCalls,
                   cleanupVars>>

pause_simulation_resumed == simulation_stop_resumed("pause")
reset_simulation_resumed == simulation_stop_resumed("reset")

\* ---------------------------------------------------- MemoryWatchWidget
\* Texts are sequences of characters.
HexDigits == <<"0", "1", "2", "3", "4", "5", "6", "7",
               "8", "9", "a", "b", "c", "d", "e", "f">>
IsHexDigit(c) == \E k \in 1..16 : HexDigits[k] = c
DigitVal(c) == (CHOOSE k \in 1..16 : HexDigits[k] = c) - 1

RECURSIVE hexdigits(_)
hexdigits(n) ==
    IF n = 0 THEN <<>>
    ELSE hexdigits(n \div 16) \o <<HexDigits[(n % 16) + 1]>>
\* hex(n) of a Python int.
hex(n) ==
    (IF n < 0 THEN <<"-">> ELSE <<>>) \o <<"0", "x">>
    \o (IF n = 0 THEN <<"0">> ELSE hexdigits(IF n < 0 THEN 0 - n ELSE n))

RECURSIVE digitsval(_)
digitsval(ds) ==
    IF ds = <<>> THEN 0
    ELSE 16 * digitsval(SubSeq(ds, 1, Len(ds) - 1)) + DigitVal(ds[Len(ds)])
\* int(s, 16): an optional sign, an optional 0x prefix, then at least one
\* hex digit; anything else raises ValueError.
int16_digits(s) ==
    LET u == IF s # <<>> /\ s[1] = "-" THEN Tail(s) ELSE s
    IN IF Len(u) >= 2 /\ u[1] = "0" /\ u[2] = "x"
       THEN SubSeq(u, 3, Len(u)) ELSE u
int16_raises(s) ==
    \/ int16_digits(s) = <<>>
    \/ \E k \in 1..Len(int16_digits(s)) : ~IsHexDigit(int16_digits(s)[k])
int16(s) ==
    IF s # <<>> /\ s[1] = "-"
    THEN 0 - digitsval(int16_digits(s))
    ELSE digitsval(int16_digits(s))

\* Texts typed into the address field of AddWatchDialog.
AddressInputs == {<<"1", "0">>, <<"0", "x", "a">>, <<"-", "1">>, <<"z">>}

RECURSIVE hexbytes(_)
hexbytes(v) ==
    IF v = <<>> THEN <<>>
    ELSE <<HexDigits[(Head(v) \div 16) + 1], HexDigits[(Head(v) % 16) + 1]>>
         \o hexbytes(Tail(v))
RECURSIVE lstrip0(_)
lstrip0(ds) ==
    IF ds # <<>> /\ Head(ds) = "0" THEN lstrip0(Tail(ds)) ELSE ds
\* hex(value) of a value read from memory (an unsigned integer in base 256).
hexvalue(v) ==
    <<"0", "x">> \o (IF lstrip0(hexbytes(v)) = <<>> THEN <<"0">>
                     ELSE lstrip0(hexbytes(v)))

NA == <<"N", "/", "A">>

\* add_watch, the dialog accepted with `address` typed: a row is inserted at
\* the end and a dict is appended to self.watches; a text that is no hex
\* number changes nothing (ValueError, a warning box).  `id` names the
\* watch: the table items and the dict of one add_watch carry the same id.
\* `of` is the id of the watch whose read produced the value shown.
add_watch ==
    /\ WindowShown
    /\ added < MaxAdds
    /\ \E address \in AddressInputs :
        LET addr_int == int16(address)
            row == Len(table)
        IN IF int16_raises(address)
           THEN UNCHANGED <<table, watches, added>>
           ELSE /\ table' = Append(table, [id |-> added + 1,
                                           address |-> hex(addr_int),
                                           value |-> NA, of |-> 0])
                /\ watches' = Append(watches, [address |-> addr_int,
                                               row |-> row, id |-> added + 1])
                /\ added' = added + 1
    /\ UNCHANGED <<PYRENODE_AVAILABLE, start_btn, pause_btn, handlers, tasks,
                   monitor_task, bridgeVars, ready, logVars, cbCalls,
                   cleanupVars>>

\* QTableWidget.removeRow(row), rows counted from 0.
removeRow(tb, row) ==
    SubSeq(tb, 1, row) \o SubSeq(tb, row + 2, Len(tb))

\* rebuild_watches: a new list, one dict per table row, read off the table.
rebuild_watches(tb) ==
    [i \in 1..Len(tb) |-> [address |-> int16(tb[i].address),
                           row |-> i - 1, id |-> tb[i].id]]

\* A for loop that is iterating the list the widget replaces keeps the old
\* list object.
keep_list(ts, old) ==
    [t \in 1..Len(ts) |->
        IF ts[t].pc = "read" /\ ts[t].live
        THEN [ts[t] EXCEPT !.live = FALSE, !.snap = old]
        ELSE ts[t]]

\* remove_watch that takes the row out of the table and leaves self.watches
\* as it was.
remove_watch_stale ==
    /\ WindowShown
    /\ \E current_row \in 0..(Len(table) - 1) :
        table' = removeRow(table, current_row)
    /\ UNCHANGED <<PYRENODE_AVAILABLE, start_btn, pause_btn, handlers, tasks,
                   watches, added, monitor_task, bridgeVars, ready, logVars,
                   cbCalls, cleanupVars>>
\* remove_watch with a row selected (currentRow() >= 0): the row is removed
\* and self.watches is rebuilt from the table.
remove_watch ==
    /\ WindowShown
    /\ \E current_row \in 0..(Len(table) - 1) :
        /\ table' = removeRow(table, current_row)
        /\ watches' = rebuild_watches(table')
        /\ tasks' = keep_list(tasks, watches)
    /\ UNCHANGED <<PYRENODE_AVAILABLE, start_btn, pause_btn, handlers, added,
                   monitor_task, bridgeVars, ready, logVars, cbCalls,
                   cleanupVars>>

\* update_value(row, value): table.setItem(row, 3, hex(value)); setItem on a
\* row the table does not have changes nothing.
update_value(tb, row, value, id) ==
    IF row >= 0 /\ row < Len(tb)
    THEN [tb EXCEPT ![row + 1].value = hexvalue(value), ![row + 1].of = id]
    ELSE tb

\* ----------------------------------------------------------- monitor_loop
\* The for loop over self.memory_watch.watches takes its next item and the
\* task awaits read_memory for it; with the list exhausted the task awaits
\* asyncio.sleep(0.5).
for_next(tk) ==
    LET lst == IF tk.live THEN watches ELSE tk.snap
    IN IF tk.idx < Len(lst)
       THEN [tk EXCEPT !.pc = "read", !.watch = lst[tk.idx + 1],
                       !.idx = tk.idx + 1]
       ELSE [tk EXCEPT !.pc = "sleep", !.watch = NoWatch, !.live = TRUE,
                       !.snap = <<>>, !.idx = 0]

\* The task's first step, and its step after the sleep: `while True`, a
\* new for loop.
monitor_loop_iterate ==
    /\ WindowShown
    /\ \E t \in 1..Len(tasks) :
        /\ tasks[t].pc \in {"created", "sleep"}
        /\ ~tasks[t].must_cancel
        /\ tasks' = [tasks EXCEPT ![t] = for_next(
                        [tasks[t] EXCEPT !.live = TRUE, !.snap = <<>>,
                                         !.idx = 0])]
    /\ UNCHANGED <<PYRENODE_AVAILABLE, start_btn, pause_btn, handlers, table,
                   watches, added, monitor_task, bridgeVars, ready, logVars,
                   cbCalls, cleanupVars>>

\* `val = await self.bridge.read_memory(watch['address'], 4)` returns:
\* update_value(watch['row'], val), then the next item.
monitor_loop_read ==
    /\ WindowShown
    /\ \E t \in 1..Len(tasks) :
        /\ tasks[t].pc = "read"
        /\ ~tasks[t].must_cancel
        /\ table' = update_value(table, tasks[t].watch.row,
                                 wrapper_read_memory(tasks[t].watch.address, 4),
                                 tasks[t].watch.id)
        /\ tasks' = [tasks EXCEPT ![t] = for_next(tasks[t])]
    /\ UNCHANGED <<PYRENODE_AVAILABLE, start_btn, pause_btn, handlers,
                   watches, added, monitor_task, bridgeVars, ready, logVars,
                   cbCalls, cleanupVars>>

\* A task whose cancellation was requested is resumed with CancelledError,
\* which `except Exception` lets through and `except asyncio.CancelledError:
\* pass` ends the coroutine on.
monitor_loop_cancelled ==
    /\ WindowShown
    /\ \E t \in 1..Len(tasks) :
        /\ tasks[t].pc # "done"
        /\ tasks[t].must_cancel
        /\ tasks' = [tasks EXCEPT ![t].pc = "done"]
    /\ UNCHANGED <<PYRENODE_AVAILABLE, start_btn, pause_btn, handlers, table,
                   watches, added, monitor_task, bridgeVars, ready, logVars,
                   cbCalls, cleanupVars>>

\* ------------------------------------------------------------ Next, Spec
\* The command path as the application drives it: bridge operations issued
\* at any time, awaited or not, and the one setup_logging of MainWindow.
Next ==
    \/ load_script
    \/ start
    \/ pause
    \/ reset
    \/ read_memory
    \/ monitor_command
    \/ WorkerPick
    \/ BackendReturn
    \/ AfterCall
    \/ WrapperReturn
    \/ loop_resolve_future
    \/ loop_run_callback
    \/ bridge_setup_logging
    \/ setup_logFile_return
    \/ setup_logLevel_return

Spec == Init /\ [][Next]_vars

\* The command path when the tasks that await bridge operations may be
\* cancelled.
NextCancel ==
    \/ load_script
    \/ start
    \/ pause
    \/ reset
    \/ read_memory
    \/ monitor_command
    \/ cancel
    \/ WorkerPick
    \/ BackendReturn
    \/ AfterCall
    \/ WrapperReturn
    \/ loop_resolve_future

SpecCancel == Init /\ [][NextCancel]_vars

\* start, pause and reset alone, issued at any time, awaited or not.
NextCtl ==
    \/ start
    \/ pause
    \/ reset
    \/ WorkerPick
    \/ BackendReturn
    \/ AfterCall
    \/ WrapperReturn
    \/ loop_resolve_future

SpecCtl == Init /\ [][NextCtl]_vars

\* Memory reads at any address and width, next to a simulation that is
\* started and a log stream that is set up.
NextRead ==
    \/ start
    \/ bridge_read_memory
    \/ WorkerPick
    \/ BackendReturn
    \/ AfterCall
    \/ WrapperReturn
    \/ loop_resolve_future
    \/ bridge_setup_logging
    \/ setup_logFile_return
    \/ setup_logLevel_return

SpecRead == Init /\ [][NextRead]_vars

\* The log stream's life cycle: setup_logging, the tailer threads starting
\* and ending, cleanup, and the temporary files.  The backend writes nothing.
NextLife ==
    \/ setup_logging
    \/ setup_logFile_return
    \/ setup_logLevel_return
    \/ tailer_open
    \/ tailer_check
    \/ tailer_read
    \/ external_remove
    \/ cleanup
    \/ cleanup_join
    \/ cleanup_exists
    \/ cleanup_remove

SpecLife == Init /\ [][NextLife]_vars

\* The log data path while logging is up: the backend writing its log, the
\* tailers reading it, the loop running the callbacks.
NextLog ==
    \/ setup_logging
    \/ setup_logFile_return
    \/ setup_logLevel_return
    \/ tailer_open
    \/ tailer_check
    \/ tailer_read
    \/ loop_run_callback
    \/ backend_write

SpecLog == Init /\ [][NextLog]_vars

\* Stopping the log stream of a session that set logging up once: the
\* backend writes, the tailer reads, cleanup is called.  The tailer is a
\* thread of its own: while it can take a step it is eventually scheduled
\* (readline and the 0.1 s sleep both return).  So is the caller inside
\* cleanup: the join returns after a second at the latest, and the file
\* system calls return.
NextStop ==
    \/ bridge_setup_logging
    \/ setup_logFile_return
    \/ setup_logLevel_return
    \/ tailer_open
    \/ tailer_check
    \/ tailer_read
    \/ backend_write
    \/ cleanup
    \/ cleanup_join
    \/ cleanup_exists
    \/ cleanup_remove

SpecStop ==
    /\ Init
    /\ [][NextStop]_vars
    /\ WF_vars(tailer_open)
    /\ WF_vars(tailer_check)
    /\ WF_vars(tailer_read)
    /\ WF_vars(cleanup_join \/ cleanup_exists \/ cleanup_remove)

\* The window's buttons next to the log stream: clicks at any time, the
\* three coroutines, the polling task (no watch is added), and the lines of
\* the backend's log on their way to append_renode_log.
NextWin ==
    \/ bridge_setup_logging
    \/ setup_logFile_return
    \/ setup_logLevel_return
    \/ tailer_open
    \/ tailer_check
    \/ tailer_read
    \/ backend_write
    \/ loop_run_callback
    \/ start_btn_clicked
    \/ pause_btn_clicked
    \/ reset_btn_clicked
    \/ start_simulation
    \/ pause_simulation
    \/ reset_simulation
    \/ start_simulation_resumed
    \/ pause_simulation_resumed
    \/ reset_simulation_resumed
    \/ monitor_loop_iterate
    \/ monitor_loop_cancelled

SpecWin == Init /\ [][NextWin]_vars

\* The watch table next to the polling task: the simulation is started,
\* watches are added and removed while the task polls.
NextWatch ==
    \/ bridge_setup_logging
    \/ setup_logFile_return
    \/ setup_logLevel_return
    \/ start_btn_clicked
    \/ start_simulation
    \/ start_simulation_resumed
    \/ add_watch
    \/ remove_watch
    \/ monitor_loop_iterate
    \/ monitor_loop_read

SpecWatch == Init /\ [][NextWatch]_vars

\* =================================================================
\* Claims
\* =================================================================
IsPrefix(a, b) == Len(a) <= Len(b) /\ SubSeq(b, 1, Len(a)) = a

\* The complete lines of a file, in order, each without its terminator.
RECURSIVE LinesFrom(_, _)
LinesFrom(content, cur) ==
    IF content = <<>> THEN <<>>
    ELSE IF Head(content) = "\n" THEN <<cur>> \o LinesFrom(Tail(content), <<>>)
    ELSE LinesFrom(Tail(content), Append(cur, Head(content)))
LinesOf(content) == LinesFrom(content, <<>>)

LiveTailers == {t \in 1..Len(tailers) : tailers[t].pc # "exited"}

\* C1: at most one call into the RenodeWrapper is executing at any instant,
\* whatever operations were dispatched and whether or not they were awaited.
C1_OneBackendCallAtATime == Cardinality(Executing) <= 1

\* C2: operations complete in issuance order: if A was dispatched before B,
\* A's wrapper call finishes before B's and A's awaiting caller resumes
\* before B's.
C2_CompleteInIssuanceOrder ==
    \A i, j \in 1..Len(ops) :
        i < j => /\ Finished(j) => Finished(i)
                 /\ Resolved(j) => Resolved(i)

\* C3: `running` is false until a start has succeeded, and equals the outcome
\* of the most recently completed successful control operation (true after
\* start, false after pause or reset) whenever no control operation is between
\* its write of the flag and its return; it is never true before some start's
\* backend call has succeeded.
C3_RunningIsLastCompleted ==
    /\ (\A i \in 1..Len(ops) : ops[i].st # "written")
            => running = (lastCompleted = "start")
    /\ running => \E i \in 1..Len(ops) :
                      /\ ops[i].kind = "start"
                      /\ ops[i].st \in {"written", "done", "resolved"}
                      /\ ~ops[i].fail

\* C4: a start, pause or reset whose backend call raises hands the exception
\* to the caller and leaves `running` as it was; `running` changes only in
\* the assignment that follows a successful start/pause/reset call, so
\* load_script, read_memory, monitor_command and setup_logging never change it.
C4_FailureLeavesRunning ==
    [][ /\ running' # running =>
              \E i \in 1..Len(ops) :
                  /\ ops[i].kind \in ControlKinds
                  /\ ops[i].st = "ret"
                  /\ ops'[i].st = "written"
        /\ \A i \in 1..Len(ops) :
              (ops[i].st # "done" /\ ops'[i].st = "done" /\ ops'[i].fail)
                  => ops'[i].res = "exc" /\ running' = running
        /\ (setups' # setups \/ setupPc' # setupPc) => running' = running
      ]_vars

\* C4 witness: a pause failed while the simulation was running, its caller
\* has seen the exception, and `running` is still true.
C4_Witness ==
    \E i \in 1..Len(ops) :
        /\ ops[i].kind = "pause"
        /\ ops[i].fail
        /\ ops[i].st = "resolved"
        /\ ops[i].res = "exc"
        /\ running

\* C5: at most one tailer thread is alive at every instant.
C5_AtMostOneTailer == Cardinality(LiveTailers) <= 1

\* C6: a tailer started on an empty file and not signalled to stop has made
\* exactly one callback per line appended so far that it has read, each
\* carrying the line without its terminator, in append order: what it has
\* delivered is a prefix of the file's lines.
C6_OneCallbackPerLine ==
    \A t \in 1..Len(tailers) :
        (tailers[t].emptyAtStart /\ ~tailers[t].stop)
            => IsPrefix(tailers[t].delivered,
                        LinesOf(files[tailers[t].path].content))

\* C7: after cleanup has returned, the stop signal the wrapper holds is set
\* and the file at log_file_path does not exist; no cleanup ever raises; and
\* a further cleanup changes nothing of the session.
C7_CleanupPost ==
    /\ raised = {}
    /\ cleanedUp =>
        /\ stop_logging_event # NoneRef => tailers[stop_logging_event].stop
        /\ log_file_path # NoneRef => ~files[log_file_path].exists
C7_CleanupIdempotent ==
    /\ []C7_CleanupPost
    /\ [][ (cleanedUp /\ cleanupPc' # cleanupPc)
              => UNCHANGED <<running, files, tailers, log_file_path, log_thread,
                             stop_logging_event, backendLogFile>> ]_vars

\* C7 witness: a second cleanup has returned on a session whose logging was
\* set up with a tailer and a temporary file.
C7_Witness ==
    /\ cleanups = 2
    /\ cleanedUp
    /\ log_file_path # NoneRef
    /\ stop_logging_event # NoneRef

\* C8: once cleanup has returned after any number of setup_logging calls, no
\* temporary file that any of them created is left on disk.
C8_NoTempFileAfterCleanup ==
    cleanedUp => \A f \in 1..Len(files) : ~files[f].exists

\* C9: the backend handle is entered only from a worker thread, never from
\* the caller's loop thread or a tailer thread.
C9_BackendOnlyFromWorker == \A c \in InBackend : c.ctx = "worker"

\* C10: the user's log callback is executed only on the loop thread.
C10_CallbackOnLoop == \A k \in 1..Len(cbCalls) : cbCalls[k].ctx = "loop"

\* C10 witness: a line the tailer read has reached the user's callback.
C10_Witness ==
    /\ cbCalls # <<>>
    /\ \E t \in 1..Len(tailers) : tailers[t].delivered # <<>>

\* The messages the user's log callback has been invoked with, in order.
Invoked == [k \in 1..Len(cbCalls) |-> cbCalls[k].msg]

\* C11: end to end, in a session whose logging was set up once, the log
\* callback is invoked on the loop once per line the backend has produced,
\* in production order: the invocations so far are a prefix of the lines of
\* the log file.
C11_OncePerProducedLine ==
    Len(files) = 1 =>
        /\ \A k \in 1..Len(cbCalls) : cbCalls[k].ctx = "loop"
        /\ IsPrefix(Invoked, LinesOf(files[1].content))

\* C12: an exception raised by a wrapper call on the worker reaches the
\* coroutine awaiting that very operation, as the same exception object with
\* its message (ValueError("Invalid path") in mock mode), and no other
\* caller; an operation whose call raised never resumes its caller normally,
\* and one whose call returned never resumes it with an exception.
C12_ExceptionToItsCaller ==
    \A i \in 1..Len(ops) :
        /\ ops[i].fail => ops[i].res = "exc" /\ ops[i].exc.call = i
        /\ ~Resolved(i) => ops[i].seen = NoExc
        /\ Resolved(i) =>
              /\ ops[i].seen = (IF ops[i].fail THEN ops[i].exc ELSE NoExc)
              /\ ops[i].fail => ops[i].seen # NoExc
              /\ (ops[i].fail /\ ~PYRENODE_AVAILABLE) =>
                    /\ ops[i].kind = "load_script"
                    /\ ops[i].seen.type = "ValueError"
                    /\ ops[i].seen.msg = "Invalid path"
              /\ (ops[i].fail /\ PYRENODE_AVAILABLE
                      /\ ops[i].kind # "monitor_command") =>
                    ops[i].seen.msg = ops[i].kind

\* C12 witness: two operations have resumed their callers, the first with
\* the exception of its own call, the second normally.
C12_Witness ==
    /\ Len(ops) = 2
    /\ Resolved(1) /\ ops[1].fail /\ ops[1].seen.call = 1
    /\ Resolved(2) /\ ~ops[2].fail /\ ops[2].seen = NoExc

\* The messages call i has handed to the log callback: those the callback
\* has been invoked with, and those still queued on the loop.
InvokedBy(i) ==
    LET c == SelectSeq(cbCalls, LAMBDA r : r.op = i)
    IN [k \in 1..Len(c) |-> c[k].msg]
QueuedBy(i) ==
    LET q == SelectSeq(ready, LAMBDA h : h.type = "log" /\ h.op = i)
    IN [k \in 1..Len(q) |-> q[k].msg]

\* C13: monitor_command captures an (output, error) pair; with a log
\* callback registered both streams go through it, output first, whether
\* or not the command succeeded; a non-empty error reaches the caller as a
\* BackendFailure with the error text, and by the time the caller resumes
\* the callback has been invoked with both streams on the loop.
C13_CommandStreams ==
    \A i \in 1..Len(ops) :
        (ops[i].kind = "monitor_command" /\ Finished(i)) =>
            LET err == IF ops[i].fail THEN "error" ELSE ""
                both == <<(<<"out">>), <<err>>>>
            IN /\ InvokedBy(i) \o QueuedBy(i) \in {<<>>, both}
               /\ ops[i].fail =>
                     ops[i].exc.type = "BackendFailure" /\ ops[i].exc.msg = err
               /\ Resolved(i) =>
                     /\ QueuedBy(i) = <<>>
                     /\ ops[i].seen = ops[i].exc
                     /\ ops[i].fail => ops[i].seen # NoExc
Started == {"call", "call2", "ret", "written"}

C15_LogBeforeRaise ==
    [][ \A i \in 1..Len(ops) :
          ( /\ ops[i].kind = "load_script"
            /\ ops[i].st \in {"call", "call2"}
            /\ ops'[i].st = "done" /\ ops'[i].fail
            /\ PYRENODE_AVAILABLE /\ setups > 0 /\ setupPc = "idle" )
              => /\ Len(QueuedBy(i)') = 3
                 /\ ready'[Len(ready')] =
                      [type |-> "future", op |-> i, msg |-> <<>>]
      ]_vars

\* C16: in mock mode an operation fails exactly when it is load_script with
\* an empty path, and then with ValueError; load_script with a non-empty
\* path and every start, pause, reset and read_memory complete without error.
C16_MockFailsOnEmptyPath ==
    ~PYRENODE_AVAILABLE =>
        \A i \in 1..Len(ops) :
            (ops[i].st \in {"done", "resolved"}
             /\ ops[i].kind # "monitor_command") =>
                /\ ops[i].fail <=> (ops[i].kind = "load_script" /\ ops[i].path = "")
                /\ ops[i].fail => ops[i].exc.type = "ValueError"
                /\ ~ops[i].fail => ops[i].res = "ok" /\ ops[i].exc = NoExc

\* C16 witness: in mock mode a load_script with an empty path has failed
\* and one with a script path has completed.
C16_Witness ==
    /\ ~PYRENODE_AVAILABLE
    /\ \E i, j \in 1..Len(ops) :
        /\ ops[i].kind = "load_script" /\ ops[i].path = ""
        /\ ops[i].st = "resolved" /\ ops[i].fail
        /\ ops[j].kind = "load_script" /\ ops[j].path # ""
        /\ ops[j].st = "resolved" /\ ~ops[j].fail

\* C17: in mock mode setup_logging returns at once and without error: it
\* makes no temporary file and starts no tailer, and whatever operations
\* follow, the log callback is never invoked nor queued for the loop.
C17_MockLoggingInert ==
    ~PYRENODE_AVAILABLE =>
        /\ setupPc = "idle"
        /\ files = <<>> /\ log_file_path = NoneRef
        /\ tailers = <<>> /\ log_thread = NoneRef
        /\ stop_logging_event = NoneRef
        /\ backendLogFile = NoneRef
        /\ cbCalls = <<>>
        /\ \A k \in 1..Len(ready) : ready[k].type # "log"
        /\ raised = {}

\* C17 witness: mock mode, setup_logging has been called, and a
\* monitor_command and a load_script have run to the end.
C17_Witness ==
    /\ ~PYRENODE_AVAILABLE
    /\ setups = 1
    /\ Len(ops) = 2
    /\ Resolved(1) /\ Resolved(2)
    /\ ops[1].kind = "monitor_command"
    /\ ops[2].kind = "load_script"

\* C18: read_memory has no side effects: no step of a read_memory, from its
\* dispatch to the resumption of its caller, changes `running`, the logging
\* state or the log callback's record, and it never enters the backend.
C18_ReadMemoryNoSideEffect ==
    [][ \A i \in 1..Len(ops') :
          (ops'[i].kind = "read_memory"
           /\ (i > Len(ops) \/ ops'[i] # ops[i]))
              => /\ running' = running
                 /\ UNCHANGED <<logVars, cbCalls, cleanupVars, lastCompleted,
                                emulation>>
                 /\ InBackend' = InBackend
      ]_vars

\* C18 witness: a read of two bytes at address 1 has completed while the
\* simulation runs and a tailer is up.
C18_Witness ==
    /\ running
    /\ tailers # <<>>
    /\ \E i \in 1..Len(ops) :
        /\ ops[i].kind = "read_memory"
        /\ ops[i].addr = 1 /\ ops[i].width = 2
        /\ Resolved(i)

\* C19: read_memory(address, width) returns an unsigned integer of `width`
\* bytes: for every width in {1, 2, 4} the result r satisfies
\* 0 <= r < 2^(8*width), that is, r has at most `width` base-256 digits.
C19_ResultFitsWidth ==
    \A i \in 1..Len(ops) :
        (ops[i].kind = "read_memory" /\ Finished(i) /\ ~ops[i].fail)
            => /\ Len(ops[i].val) <= ops[i].width
               /\ \A k \in 1..Len(ops[i].val) : ops[i].val[k] \in 0..255

\* C20: a tailer whose stop signal cleanup has raised eventually leaves its
\* read loop and ends, whether or not unread lines remain and while the
\* backend goes on writing; once it has seen the signal and left the loop
\* it invokes the callback no more.
C20_StoppingLeadsToStopped ==
    /\ \A t \in 1..MaxSetups :
          (t <= Len(tailers) /\ tailers[t].stop)
              ~> (t <= Len(tailers) /\ tailers[t].pc = "exited")
    /\ [][ \A t \in 1..Len(tailers) :
              tailers[t].pc = "exited" => tailers'[t] = tailers[t] ]_vars

\* C20 witness: a tailer that had delivered a line was signalled and has
\* ended while what the backend wrote after it is still unread.
C20_Witness ==
    \E t \in 1..Len(tailers) :
        /\ tailers[t].stop
        /\ tailers[t].pc = "exited"
        /\ tailers[t].delivered # <<>>
        /\ tailers[t].pos < Len(files[tailers[t].path].content)

\* C21: cleanup raises the stop signal, then waits for the tailer, then
\* removes the temporary file: its first step sets the event the wrapper
\* holds, its stages follow in that order, a temporary file disappears only
\* in the removal stage and with the event set, and a cleanup that has
\* begun always comes to its end, with the file at log_file_path gone,
\* whether or not the tailer has ended.
C21_CleanupOrder ==
    /\ (cleanupPc # "idle") ~> (cleanupPc = "idle")
    /\ [][
          /\ (cleanupPc = "idle" /\ cleanupPc' # "idle") =>
                /\ cleanupPc' = "join"
                /\ (stop_logging_event # NoneRef =>
                      tailers'[stop_logging_event].stop)
                /\ files' = files
          /\ cleanupPc' = "exists" => cleanupPc \in {"join", "exists"}
          /\ cleanupPc' = "remove" => cleanupPc \in {"exists", "remove"}
          /\ (\E f \in 1..Len(files) : files[f].exists /\ ~files'[f].exists) =>
                /\ cleanupPc = "remove"
                /\ (stop_logging_event # NoneRef =>
                      tailers[stop_logging_event].stop)
          /\ (cleanupPc # "idle" /\ cleanupPc' = "idle") =>
                (log_file_path # NoneRef => ~files'[log_file_path].exists)
       ]_vars

\* C21 witness: cleanup has returned and removed the file while the tailer,
\* signalled, has not yet left its loop.
C21_Witness ==
    /\ cleanedUp /\ cleanupPc = "idle"
    /\ log_file_path # NoneRef /\ ~files[log_file_path].exists
    /\ log_thread # NoneRef
    /\ tailers[log_thread].stop
    /\ tailers[log_thread].pc \in {"check", "read"}

RECURSIVE Flatten(_)
Flatten(ss) == IF ss = <<>> THEN <<>> ELSE Head(ss) \o Flatten(Tail(ss))
NonBlank(s) == SelectSeq(s, LAMBDA c : c \notin Whitespace)

\* C22: the tailer reads its file from the beginning and skips nothing: with
\* no stop signal raised, what it has handed to the callback is, in order
\* and blanks aside, the text of the file from its first character up to
\* the tailer's position, so the lines written before its first read are
\* delivered like the later ones.
C22_ReadsFromBeginning ==
    \A t \in 1..Len(tailers) :
        ~tailers[t].stop =>
            /\ tailers[t].pos <= Len(files[tailers[t].path].content)
            /\ NonBlank(Flatten(tailers[t].delivered)) =
                 NonBlank(SubSeq(files[tailers[t].path].content, 1,
                                 tailers[t].pos))
            /\ tailers[t].pc = "start" => tailers[t].pos = 0

\* C22 witness: a line was in the file before the tailer thread was
\* started, and the tailer has delivered it and reached the end of the file.
C22_Witness ==
    \E t \in 1..Len(tailers) :
        /\ ~tailers[t].emptyAtStart
        /\ ~tailers[t].stop
        /\ LinesOf(files[tailers[t].path].content) # <<>>
        /\ tailers[t].pos = Len(files[tailers[t].path].content)
        /\ Len(tailers[t].delivered) = Len(LinesOf(files[tailers[t].path].content))

\* C23: setup_logging creates the temporary file empty, then directs the
\* backend to it, then starts the tailer: a tailer is started only from the
\* last stage, on the existing file the backend has been directed to; a
\* failed logFile directive ends setup_logging with no exception and no
\* tailer and with the file still there, and a cleanup that follows removes
\* that file.
C23_SetupOrder ==
    /\ [](raised = {})
    /\ [](\A t \in 1..Len(tailers) : tailers[t].path <= Len(files))
    /\ [][
          /\ Len(files') > Len(files) =>
                /\ setupPc = "idle" /\ setupPc' = "logFile"
                /\ files'[Len(files')] = [exists |-> TRUE, content |-> <<>>]
                /\ log_file_path' = Len(files')
                /\ UNCHANGED <<tailers, backendLogFile>>
          /\ backendLogFile' # backendLogFile =>
                /\ setupPc = "logFile" /\ setupPc' = "logLevel"
                /\ files[log_file_path].exists
                /\ backendLogFile' = log_file_path
                /\ tailers' = tailers
          /\ Len(tailers') > Len(tailers) =>
                /\ setupPc = "logLevel" /\ setupPc' = "idle"
                /\ files[log_file_path].exists
                /\ backendLogFile = log_file_path
                /\ tailers'[Len(tailers')].path = log_file_path
          /\ (setupPc = "logFile" /\ setupPc' = "idle") =>
                /\ UNCHANGED <<tailers, log_thread, stop_logging_event,
                               backendLogFile, raised>>
                /\ files'[log_file_path].exists
          /\ (cleanupPc # "idle" /\ cleanupPc' = "idle" /\ tailers = <<>>) =>
                (log_file_path # NoneRef => ~files'[log_file_path].exists)
       ]_vars

\* C23 witness: the logFile directive failed, setup_logging returned with
\* no tailer, and a cleanup has since removed the file it left.
C23_Witness ==
    /\ setups = 1 /\ setupPc = "idle"
    /\ tailers = <<>> /\ backendLogFile = NoneRef
    /\ log_file_path # NoneRef
    /\ cleanedUp
    /\ ~files[log_file_path].exists

\* The successful control operations whose wrapper call finished after that
\* of the operation at the head of the loop's queue: their wake-up handles
\* are queued behind it.
CompletedAfterHead ==
    {ready[k].op : k \in {m \in 2..Len(ready) :
                              /\ ready[m].type = "future"
                              /\ ops[ready[m].op].kind \in ControlKinds
                              /\ ~ops[ready[m].op].fail}}

\* C24: the caller awaiting a bridge operation resumes once, and only after
\* the wrapper call has returned or raised; and when the caller of a
\* successful start, pause or reset resumes, `running` holds the value that
\* operation wrote or the value of one that completed after it.
C24_SeesOwnOrLaterCompleted ==
    [][ \A i \in 1..Len(ops) :
          /\ (ops[i].st # "resolved" /\ ops'[i].st = "resolved") =>
                /\ ops[i].st = "done"
                /\ (ops[i].kind \in ControlKinds /\ ~ops[i].fail) =>
                      running \in {ops[j].kind = "start" :
                                      j \in {i} \cup CompletedAfterHead}
          /\ ops[i].st = "resolved" => ops'[i].st = "resolved"
      ]_vars

\* The successful control operations that have made their assignment to
\* `running`.
HasWritten ==
    {j \in 1..Len(ops) :
        /\ ops[j].kind \in ControlKinds
        /\ ops[j].st \in {"written", "done", "resolved", "discarded"}
        /\ ~ops[j].fail}

\* C24 amended: the caller resumes once, and only after the wrapper call
\* has returned or raised; a successful start, pause or reset returns only
\* after its assignment to `running`, so its assignment lies before the
\* caller's resumption, and what the caller then reads is that value or
\* the value of another control operation that has made its assignment,
\* completed or not.
C24_ResumeAfterOwnWrite ==
    [][ \A i \in 1..Len(ops) :
          /\ (ops[i].st # "resolved" /\ ops'[i].st = "resolved") =>
                /\ ops[i].st = "done"
                /\ (ops[i].kind \in ControlKinds /\ ~ops[i].fail) =>
                      /\ i \in HasWritten
                      /\ running \in {ops[j].kind = "start" : j \in HasWritten}
          /\ ops[i].st = "resolved" => ops'[i].st = "resolved"
          /\ (ops[i].st # "done" /\ ops'[i].st = "done"
               /\ ops[i].kind \in ControlKinds /\ ~ops'[i].fail) =>
                ops[i].st = "written"
          /\ (ops[i].st # "written" /\ ops'[i].st = "written") =>
                running' = (ops[i].kind = "start")
      ]_vars

\* C24 witness: the caller of a start has resumed and `running` is false,
\* written by a pause that has not returned yet.
C24_Witness ==
    \E i, j \in 1..Len(ops) :
        /\ ops[i].kind = "start" /\ Resolved(i) /\ ~ops[i].fail
        /\ ops[j].kind = "pause" /\ ops[j].st = "written"
        /\ ~running

\* C25: with the real backend every load_script clears the emulation before
\* it includes the script: the include is issued only once the call's own
\* clear has succeeded, and it runs, from its issue to its end, on a clear
\* emulation, never on what an earlier load has left there.
C25_ClearBeforeInclude ==
    [][ PYRENODE_AVAILABLE =>
          \A i \in 1..Len(ops) :
            ops[i].kind = "load_script" =>
              /\ (ops[i].st # "call2" /\ ops'[i].st = "call2") =>
                    ops[i].st = "call" /\ emulation' = "clear"
              /\ (ops[i].st = "call2" /\ ops'[i].st # "call2") =>
                    emulation = "clear"
              /\ (ops[i].st = "call" /\ ops'[i].st = "done") => ops'[i].fail
      ]_vars

\* C26: the callback is invoked with complete lines only: a tailer stands
\* at the beginning of the file or just behind a line terminator, and it
\* has made one invocation per terminated line it has passed, so a line
\* written in two parts is delivered once, after its terminator.
C26_OnlyCompleteLines ==
    \A t \in 1..Len(tailers) :
        LET content == files[tailers[t].path].content
            pos == tailers[t].pos
        IN /\ pos > 0 => content[pos] = "\n"
           /\ Len(tailers[t].delivered) = Len(LinesOf(SubSeq(content, 1, pos)))

\* A polling task that has not finished, and one that still polls (no
\* cancellation has been requested of it).
Alive == {t \in 1..Len(tasks) : tasks[t].pc # "done"}
Active == {t \in Alive : ~tasks[t].must_cancel}

\* C27: at most one monitor_loop task is alive at any time, and when
\* pause_simulation or reset_simulation gets past its await without an
\* exception no polling task is active any more.
C27_OnePollingTask ==
    [][ /\ Cardinality(Alive') <= 1
        /\ \A h \in 1..Len(handlers) :
              (/\ handlers[h].kind \in {"pause", "reset"}
               /\ handlers[h].pc = "await"
               /\ handlers'[h].pc = "done"
               /\ handlers'[h].ok) => Active' = {}
      ]_vars

\* C28: when a read of monitor_loop returns, the row its value is written
\* to exists and is the row of the watch that was read.
C28_ValueToItsOwnRow ==
    [][ \A t \in 1..Len(tasks) :
          (/\ tasks[t].pc = "read"
           /\ tasks'[t].pc \in {"read", "sleep"}
           /\ tasks'[t].pc = "sleep" \/ tasks'[t].idx = tasks[t].idx + 1)
          => /\ tasks[t].watch.row < Len(table)
             /\ table[tasks[t].watch.row + 1].id = tasks[t].watch.id
      ]_vars

\* C29: watches has one entry per table row, in row order: entry i has row
\* index i (counted from 0) and the address that row i shows.
C29_WatchesMirrorTable ==
    /\ Len(watches) = Len(table)
    /\ \A i \in 1..Len(table) :
        /\ watches[i].row = i - 1
        /\ watches[i].address = int16(table[i].address)
        /\ hex(watches[i].address) = table[i].address
\* A watch has been removed and a later one has moved up into its row.
C29_Witness ==
    /\ table # <<>>
    /\ table[1].id > 1
    /\ watches[1].id = table[1].id

====
